---- MODULE Spec2Model ----
(***************************************************************************)
(* basic-react-ssr: server.js.                                             *)
(*                                                                         *)
(* The module script renders HelloWorld once into the constant html,       *)
(* chains the middleware logger and sendHTMLPage on an Express app and     *)
(* listens on port 3000.  Each request is then handled by one synchronous  *)
(* pass through the middleware chain.                                      *)
(*                                                                         *)
(* Representation.  A JavaScript string that carries markup is kept as the *)
(* token stream of its text (start tags, end tags, the doctype, character  *)
(* data); character data is a sequence of one-character strings, so that   *)
(* escaping and "contains" are computed, not assumed.  Log lines are plain *)
(* strings.                                                                *)
(***************************************************************************)
EXTENDS Naturals, Sequences, FiniteSets, TLC

\* ------------------------------------------------------------------ bounds

\* Requests that arrive in one run of the process.
MaxRequests == 3

\* ------------------------------------------------------------- characters

NL == "\n"

Spaces(n) == [i \in 1..n |-> " "]

RECURSIVE Flatten(_)
Flatten(ss) == IF ss = <<>> THEN <<>> ELSE Head(ss) \o Flatten(Tail(ss))

\* s occurs in t as a contiguous run.
Contains(t, s) ==
    \E i \in 0..Len(t) :
        /\ i + Len(s) <= Len(t)
        /\ \A k \in 1..Len(s) : t[i + k] = s[k]

\* ------------------------------------------------------------ markup tokens

StartTag(name, attrs) ==
    [type |-> "StartTag", name |-> name, attrs |-> attrs, data |-> <<>>]

EndTag(name) ==
    [type |-> "EndTag", name |-> name, attrs |-> <<>>, data |-> <<>>]

Doctype(name) ==
    [type |-> "DOCTYPE", name |-> name, attrs |-> <<>>, data |-> <<>>]

Characters(data) ==
    [type |-> "Characters", name |-> "", attrs |-> <<>>, data |-> data]

\* --------------------------------------------------------------- Hello.js

\* The literal in server.js line 9: `Adele`.
NameLiteral == <<"A", "d", "e", "l", "e">>

\* The value of html before line 7 has run: not markup.
Undefined ==
    << [type |-> "undefined", name |-> "", attrs |-> <<>>, data |-> <<>>] >>

Null == "null"

\* React.createElement(type, props, ...children)
createElement(type, props, children) ==
    [type |-> type, props |-> props, children |-> children]

\* `Hello from the Server Side, ${props.name}`
HelloText(props) ==
    << "H", "e", "l", "l", "o", " ", "f", "r", "o", "m", " ", "t", "h", "e",
       " ", "S", "e", "r", "v", "e", "r", " ", "S", "i", "d", "e", ",", " " >>
    \o props.name

\* Mutant: the text in quotes instead of backticks, so that ${props.name} is
\* not interpolated.
HelloWorld_quoted(props) ==
    createElement("h1", Null,
        << "H", "e", "l", "l", "o", " ", "f", "r", "o", "m", " ", "t", "h",
           "e", " ", "S", "e", "r", "v", "e", "r", " ", "S", "i", "d", "e",
           ",", " ", "$", "{", "p", "r", "o", "p", "s", ".", "n", "a", "m",
           "e", "}" >>)

\* exports.HelloWorld = (props) => React.createElement('h1', null, `...`)
HelloWorld(props) == createElement("h1", Null, HelloText(props))

\* ------------------------------------------------- ReactDOMServer (library)

\* escapeTextForBrowser: the five characters React replaces in text.
EscapeChar(c) ==
    CASE c = "&"  -> <<"&", "a", "m", "p", ";">>
      [] c = "<"  -> <<"&", "l", "t", ";">>
      [] c = ">"  -> <<"&", "g", "t", ";">>
      [] c = "\"" -> <<"&", "q", "u", "o", "t", ";">>
      [] c = "'"  -> <<"&", "#", "x", "2", "7", ";">>
      [] OTHER    -> <<c>>

escapeTextForBrowser(text) ==
    Flatten([i \in 1..Len(text) |-> EscapeChar(text[i])])

\* A function component is called with its props and its result rendered; a
\* host element becomes its start tag (the root carries data-reactroot=""),
\* its escaped text and its end tag.
renderToString(element) ==
    LET host == IF element.type = "HelloWorld"
                THEN HelloWorld(element.props)
                ELSE element
    IN  << StartTag(host.type, << <<"data-reactroot", "">> >>),
           Characters(escapeTextForBrowser(host.children)),
           EndTag(host.type) >>

\* ---------------------------------------------------------------- server.js

\* `${req.method} request for '${req.url}'`
LogLine(req) == req.method \o " request for '" \o req.url \o "'"

StartupLine == "Express app running at 'http://localhost:3000'"

\* The template literal of sendHTMLPage, lines 17-26, with html interpolated.
PageTemplate(html) ==
    << Characters(<<NL>> \o Spaces(4)),
       Doctype("html"),
       Characters(<<NL>> \o Spaces(8)),
       StartTag("head", <<>>),
       Characters(<<NL>> \o Spaces(12)),
       StartTag("title", <<>>),
       Characters(<< "R", "e", "a", "c", "t", " ", "S", "e", "r", "v", "e",
                     "r", " ", "S", "i", "d", "e", " ", "A", "p", "p" >>),
       EndTag("title"),
       Characters(<<NL>> \o Spaces(8)),
       EndTag("head"),
       Characters(<<NL>> \o Spaces(8)),
       StartTag("body", <<>>),
       Characters(<<NL>> \o Spaces(12)),
       StartTag("div", << <<"id", "react-container">> >>) >>
    \o html \o
    << EndTag("div"),
       Characters(<<NL>> \o Spaces(8)),
       EndTag("body"),
       Characters(<<NL>> \o Spaces(4)),
       EndTag("html"),
       Characters(<<NL>> \o Spaces(2)) >>

\* -------------------------------------------------------------------- state

VARIABLES
    pc,          \* position of the module script, then the process's phase
    html,        \* the module constant html (Undefined before line 7 ran)
    app,         \* the Express app's middleware stack, in order of use()
    listenPort,  \* the port the server is bound to, 0 while unbound
    console,     \* standard output: the lines written by console.log
    requests,    \* request id -> [method, url], in order of arrival
    res,         \* request id -> the response object of that request
    layerIdx,    \* request id -> the router's index into the stack
    tasks,       \* the event loop's queue of callbacks still to run
    turns,       \* the turns the event loop has taken for those callbacks
    trace        \* history: what happened, in order

vars ==
    << pc, html, app, listenPort, console, requests, res, layerIdx, tasks,
       turns, trace >>

Port == 3000

Methods == {"GET", "POST"}

Urls == {"/", "/anything"}

\* A fresh http.ServerResponse: Node's default status code is 200.
NewResponse == [statusCode |-> 200, body |-> <<>>, headersSent |-> FALSE]

\* Everything a callback can read or write, with the JavaScript call stack
\* (empty whenever the event loop is between callbacks).
World ==
    [ html |-> html, app |-> app, console |-> console, req |-> requests,
      res |-> res, idx |-> layerIdx, tasks |-> tasks, trace |-> trace,
      stack |-> <<>> ]

\* ------------------------------------------------------------------ history

\* An event is stamped with the function on top of the call stack and the
\* request that function was called for (0: none).
Ev(w, ev) ==
    LET top == IF w.stack = <<>>
               THEN [fn |-> "event-loop", id |-> 0]
               ELSE w.stack[Len(w.stack)]
    IN  [w EXCEPT !.trace = Append(@, [ev |-> ev, id |-> top.id, fn |-> top.fn])]

Push(w, fn, id) ==
    Ev([w EXCEPT !.stack = Append(@, [fn |-> fn, id |-> id])], "enter")

Pop(w) ==
    LET w1 == Ev(w, "exit")
    IN  [w1 EXCEPT !.stack = SubSeq(@, 1, Len(@) - 1)]

\* ---------------------------------------------------- Node / Express calls

console_log(w, line) ==
    Ev([w EXCEPT !.console = Append(@, line)], "log")

\* res.status(code)
status(w, id, code) ==
    Ev([w EXCEPT !.res[id].statusCode = code], "status")

\* res.send(body): writes the head and the body and ends the response; a
\* response already sent cannot be sent again.
send(w, id, body) ==
    IF w.res[id].headersSent
    THEN Ev(w, "send-error")
    ELSE Ev([w EXCEPT !.res[id].body = body, !.res[id].headersSent = TRUE],
            "send")

\* ReactDOMServer.renderToString(React.createElement(HelloWorld, {name}))
Render(w) ==
    LET w1 == Ev(w, "render")
    IN  [w1 EXCEPT !.html =
            renderToString(createElement("HelloWorld",
                                         [name |-> NameLiteral], <<>>))]

\* Express's default answer when the stack is exhausted: 404.
NotFoundBody ==
    << StartTag("pre", <<>>),
       Characters(<<"C", "a", "n", "n", "o", "t">>),
       EndTag("pre") >>

finalhandler(w, id) ==
    Pop(send(status(Push(w, "finalhandler", id), id, 404), id, NotFoundBody))

\* ------------------------------------------------------------- middleware

RECURSIVE next(_, _)

\* Mutant: next() is called before the line is written.
logger_nextFirst(w, id) == console_log(next(w, id), LogLine(w.req[id]))

\* Mutant: next() is forgotten.
logger_noNext(w, id) == console_log(w, LogLine(w.req[id]))

\* Mutant: next is handed to setImmediate instead of being called, so that
\* it runs in a later turn of the event loop.
logger_deferNext(w, id) ==
    [console_log(w, LogLine(w.req[id]))
        EXCEPT !.tasks = Append(@, [run |-> "next", id |-> id])]

\* const logger = (req, res, next) => { console.log(...); next(); };
logger(w, id) == next(console_log(w, LogLine(w.req[id])), id)

\* Mutant: the component is rendered again for each request.
sendHTMLPage_rerender(w, id) ==
    LET w1 == Render(w)
    IN  send(status(w1, id, 200), id, PageTemplate(w1.html))

\* Mutant: the page echoes the requested path.
sendHTMLPage_echoUrl(w, id) ==
    send(status(w, id, 200), id,
         PageTemplate(w.html \o <<Characters(<<w.req[id].url>>)>>))

\* const sendHTMLPage = (req, res) => { res.status(200).send(`...`) };
sendHTMLPage(w, id) == send(status(w, id, 200), id, PageTemplate(w.html))

\* Layer.handle_request: call the middleware registered under fn.
handle_request(w, id, fn) ==
    LET w1 == Push(w, fn, id)
        w2 == CASE fn = "logger"       -> logger(w1, id)
                [] fn = "sendHTMLPage" -> sendHTMLPage(w1, id)
    IN  Pop(w2)

\* The router's next(): run the next layer of the stack, or the final
\* handler when none is left.  It returns when that layer returns.
next(w, id) ==
    LET w1 == Ev(w, "next")
        w2 == IF w1.idx[id] >= Len(w1.app)
              THEN finalhandler(w1, id)
              ELSE handle_request([w1 EXCEPT !.idx[id] = @ + 1], id,
                                  w1.app[w1.idx[id] + 1])
    IN  Ev(w2, "return")

\* app(req, res): the request listener; starts the chain at the first layer.
app_handle(w, id) ==
    Pop(next(Push([w EXCEPT !.idx[id] = 0], "app", id), id))

\* Mutant: use() puts the middleware in front of the stack.
use_prepend(stack, fn) == <<fn>> \o stack

\* express().use(fn)
use(stack, fn) == Append(stack, fn)

\* One turn of the event loop: run the callback at the head of the queue, a
\* request event or a continuation that was deferred to a later turn
\* (server.js defers none).
RunTask(w, task) ==
    CASE task.run = "request" -> app_handle(w, task.id)
      [] task.run = "next"    -> Pop(next(Push(w, "immediate", task.id), task.id))

\* ------------------------------------------------------------------ actions

Init ==
    /\ pc = "html"
    /\ html = Undefined
    /\ app = <<>>
    /\ listenPort = 0
    /\ console = <<>>
    /\ requests = <<>>
    /\ res = <<>>
    /\ layerIdx = <<>>
    /\ tasks = <<>>
    /\ turns = 0
    /\ trace = <<>>

Commit(w) ==
    /\ html' = w.html
    /\ app' = w.app
    /\ console' = w.console
    /\ requests' = w.req
    /\ res' = w.res
    /\ layerIdx' = w.idx
    /\ tasks' = w.tasks
    /\ trace' = w.trace

\* Lines 7-9: const html = ReactDOMServer.renderToString(...)
EvalHtml ==
    /\ pc = "html"
    /\ Commit(Pop(Render(Push(World, "module", 0))))
    /\ pc' = "app"
    /\ UNCHANGED << listenPort, turns >>

\* Lines 7-9, the render throwing: the uncaught exception ends the process.
EvalHtmlThrows ==
    /\ pc = "html"
    /\ Commit(Ev(Ev(Push(World, "module", 0), "render"), "throw"))
    /\ pc' = "crashed"
    /\ UNCHANGED << listenPort, turns >>

\* Lines 29-31: const app = express().use(logger).use(sendHTMLPage)
BuildApp ==
    /\ pc = "app"
    /\ app' = use(use(<<>>, "logger"), "sendHTMLPage")
    /\ pc' = "listen"
    /\ UNCHANGED << html, listenPort, console, requests, res, layerIdx,
                    tasks, turns, trace >>

\* Mutant: app.listen(3000, console.log(...)): the line is written by the
\* call itself instead of by a callback.
Listen_eagerLog ==
    /\ pc = "listen"
    /\ pc' = "binding"
    /\ Commit(Pop(Ev(console_log(Push(World, "module", 0), StartupLine),
                     "listen")))
    /\ UNCHANGED << listenPort, turns >>

\* Lines 33-35: app.listen(3000, callback).  The script ends here; the
\* outcome of the bind is delivered in a later turn.
Listen ==
    /\ pc = "listen"
    /\ pc' = "binding"
    /\ Commit(Pop(Ev(Push(World, "module", 0), "listen")))
    /\ UNCHANGED << listenPort, turns >>

\* The listener is bound: the 'listening' callback of line 34 runs.
ListenCallback ==
    /\ pc = "binding"
    /\ listenPort' = Port
    /\ Commit(Pop(console_log(Push(Ev(World, "bound"), "listening", 0),
                              StartupLine)))
    /\ pc' = "listening"
    /\ UNCHANGED turns

\* The bind fails (the port is taken): the 'error' event has no handler and
\* the process ends.
ListenError ==
    /\ pc = "binding"
    /\ Commit(Ev(World, "bind-error"))
    /\ pc' = "crashed"
    /\ UNCHANGED << listenPort, turns >>

\* A request arrives on the listening socket and its event is queued.
Arrive ==
    /\ pc = "listening"
    /\ Len(requests) < MaxRequests
    /\ \E m \in Methods, u \in Urls :
        LET id == Len(requests) + 1
        IN  /\ requests' = Append(requests, [method |-> m, url |-> u])
            /\ res' = Append(res, NewResponse)
            /\ layerIdx' = Append(layerIdx, 0)
            /\ tasks' = Append(tasks, [run |-> "request", id |-> id])
            /\ trace' = Append(trace, [ev |-> "arrive", id |-> id,
                                        fn |-> "event-loop"])
    /\ UNCHANGED << pc, html, app, listenPort, console, turns >>

\* The event loop runs the callback at the head of its queue to completion.
RunNextTask ==
    /\ pc = "listening"
    /\ tasks # <<>>
    /\ Commit(RunTask([World EXCEPT !.tasks = Tail(tasks)], Head(tasks)))
    /\ turns' = turns + 1
    /\ UNCHANGED << pc, listenPort >>

Next ==
    \/ EvalHtml
    \/ EvalHtmlThrows
    \/ BuildApp
    \/ Listen
    \/ ListenCallback
    \/ ListenError
    \/ Arrive
    \/ RunNextTask

Spec == Init /\ [][Next]_vars

\* What enables a turn of the event loop, and what every turn does to the
\* count of turns: the steps that change turns are the RunNextTask steps.
LoopTurn ==
    /\ pc = "listening"
    /\ tasks # <<>>
    /\ turns' = turns + 1

\* The event loop never leaves a queued callback waiting forever.
FairSpec == Spec /\ WF_turns(LoopTurn)

\* ------------------------------------------------------- reading the state

Ids == DOMAIN requests

Sent(id) == id \in DOMAIN res /\ res[id].headersSent

\* Indices of the history's events of one kind.
Where(ev) == {i \in DOMAIN trace : trace[i].ev = ev}

WhereOf(ev, fn, id) ==
    {i \in DOMAIN trace : trace[i] = [ev |-> ev, id |-> id, fn |-> fn]}

\* The request ids of the events of one kind, in order.
IdsOf(ev) ==
    LET idxs == Where(ev)
        RECURSIVE Collect(_)
        Collect(i) ==
            IF i > Len(trace) THEN <<>>
            ELSE IF i \in idxs /\ trace[i].id # 0
                 THEN <<trace[i].id>> \o Collect(i + 1)
                 ELSE Collect(i + 1)
    IN  Collect(1)

\* The request was given to the app and its callback has returned.
Handled(id) == WhereOf("exit", "app", id) # {}

ContainerTag == StartTag("div", << <<"id", "react-container">> >>)

\* body holds the container's start tag immediately followed by markup.
EmbedsInContainer(body, markup) ==
    \E i \in 1..Len(body) :
        /\ body[i] = ContainerTag
        /\ i + Len(markup) <= Len(body)
        /\ SubSeq(body, i + 1, i + Len(markup)) = markup

\* Some character data of the markup contains the text.
MarkupContains(markup, text) ==
    \E k \in 1..Len(markup) :
        /\ markup[k].type = "Characters"
        /\ Contains(markup[k].data, text)

\* The tags of a document, read in order against a stack of open elements.
RECURSIVE Nesting(_, _)
Nesting(tokens, open) ==
    IF tokens = <<>> THEN open = <<>>
    ELSE LET t == Head(tokens)
         IN  CASE t.type = "StartTag" ->
                    Nesting(Tail(tokens), Append(open, t.name))
               [] t.type = "EndTag" ->
                    /\ open # <<>>
                    /\ open[Len(open)] = t.name
                    /\ Nesting(Tail(tokens), SubSeq(open, 1, Len(open) - 1))
               [] OTHER -> Nesting(Tail(tokens), open)

WellNested(tokens) == Nesting(tokens, <<>>)

\* ------------------------------------------------------------------- claims

\* C1: every response that was sent, whatever the method and the path of its
\* request, has status 200 and a body in which the start tag
\* <div id="react-container"> is immediately followed by the pre-rendered
\* markup html, and that markup contains the configured name Adele.
C1_FixedResponse ==
    \A id \in Ids :
        Sent(id) =>
            /\ res[id].statusCode = 200
            /\ EmbedsInContainer(res[id].body, html)
            /\ MarkupContains(html, NameLiteral)

\* A POST to /anything has been answered.
C1_Witness ==
    \E id \in Ids :
        /\ Sent(id)
        /\ requests[id] = [method |-> "POST", url |-> "/anything"]

\* C2: the response does not depend on the request: any two responses that
\* were sent have the same status and the same body, whatever the methods,
\* the paths and the order of their requests.
C2_SameResponse ==
    \A i, j \in Ids :
        (Sent(i) /\ Sent(j)) =>
            /\ res[i].statusCode = res[j].statusCode
            /\ res[i].body = res[j].body

\* Two answered requests that differ in method and in path.
C2_Witness ==
    \E i, j \in Ids :
        /\ Sent(i) /\ Sent(j)
        /\ requests[i].method # requests[j].method
        /\ requests[i].url # requests[j].url

\* C8: the document sent by sendHTMLPage is well-nested: every end tag,
\* </html> included, closes the element opened last and still open, and no
\* element is left open at the end.
C8_WellNested ==
    \A id \in Ids : Sent(id) => WellNested(res[id].body)

\* The events of one kind stamped with request id, whatever the function.
WhereId(ev, id) == {i \in Where(ev) : trace[i].id = id}

\* The console line written by the log event at index i of the history.
LineOf(i) == console[Cardinality({k \in Where("log") : k <= i})]

\* C3: for every request the server has handled exactly one request log line
\* was written, it is the line of that request, and it was written before
\* the response was sent; no response is sent without its log line before it.
C3_OneLogBeforeResponse ==
    \A id \in Ids :
        /\ Handled(id) => Cardinality(WhereId("log", id)) = 1
        /\ \A i \in WhereId("log", id) : LineOf(i) = LogLine(requests[id])
        /\ Sent(id) => WhereId("send", id) # {}
        /\ \A j \in WhereId("send", id) :
              \E i \in WhereId("log", id) : i < j

\* A handled GET / whose log line is on the console.
C3_Witness ==
    \E id \in Ids :
        /\ Handled(id) /\ Sent(id)
        /\ requests[id] = [method |-> "GET", url |-> "/"]
        /\ \E k \in DOMAIN console : console[k] = "GET request for '/'"

\* What the invocation of logger that starts at index i of the history did
\* itself, in order (the events stamped with its own frame, up to its exit).
LoggerOwn(i) ==
    LET id   == trace[i].id
        outs == {j \in WhereOf("exit", "logger", id) : j > i}
        j    == CHOOSE x \in outs : \A y \in outs : x <= y
        own  == SelectSeq(SubSeq(trace, i, j),
                          LAMBDA e : e.fn = "logger" /\ e.id = id)
    IN  IF outs = {} THEN <<>> ELSE [k \in 1..Len(own) |-> own[k].ev]

\* The request's event is still in the event loop's queue.
Pending(id) ==
    \E k \in DOMAIN tasks : tasks[k] = [run |-> "request", id |-> id]

\* Calling logger for a pending request, against calling its continuation
\* directly: the same request, response, router and queue state, and one
\* more console line, written first.
LoggerFrame(id) ==
    LET w0     == Push([World EXCEPT !.idx[id] = 1], "logger", id)
        via    == logger(w0, id)
        direct == next(w0, id)
    IN  /\ via.req = w0.req
        /\ via.req = direct.req
        /\ via.res = direct.res
        /\ via.html = direct.html
        /\ via.app = direct.app
        /\ via.idx = direct.idx
        /\ via.tasks = direct.tasks
        /\ via.console =
              Append(w0.console, LogLine(w0.req[id]))
              \o SubSeq(direct.console, Len(w0.console) + 1,
                        Len(direct.console))

\* C4: every invocation of logger writes one log line, then calls next
\* exactly once within the same invocation, and does nothing else: it sets
\* no status and no body, sends nothing, and leaves the request and the
\* response as its continuation leaves them.
C4_LoggerContract ==
    /\ \A i \in Where("enter") :
          trace[i].fn = "logger" =>
              LoggerOwn(i) = <<"enter", "log", "next", "return", "exit">>
    /\ \A id \in Ids : Pending(id) => LoggerFrame(id)

\* logger has run for a POST to / and another request is still pending.
C4_Witness ==
    \E id, other \in Ids :
        /\ WhereOf("enter", "logger", id) # {}
        /\ requests[id] = [method |-> "POST", url |-> "/"]
        /\ Pending(other)

\* The functions entered for request id, in order.
Entered(id) ==
    LET mine == SelectSeq(trace, LAMBDA e : e.ev = "enter" /\ e.id = id)
    IN  [k \in 1..Len(mine) |-> mine[k].fn]

C5_Pipeline ==
    \A id \in Ids :
        /\ Handled(id) => Entered(id) = <<"app", "logger", "sendHTMLPage">>
        /\ Handled(id) => Cardinality(WhereOf("send", "sendHTMLPage", id)) = 1
        /\ Cardinality(WhereId("send", id)) <= 1
        /\ WhereId("send-error", id) = {}
        /\ \A j \in WhereId("send", id) :
              \A k \in WhereId("enter", id) : k < j

\* C5: every request that arrives while the server listens is eventually
\* answered; its middleware run in the order they were chained (logger, then
\* sendHTMLPage), exactly one response is sent for it, by sendHTMLPage, and
\* no middleware is entered for it after the response is sent.
C5_NeverLeftHanging ==
    /\ \A id \in 1..MaxRequests : (id \in Ids) ~> Sent(id)
    /\ []C5_Pipeline

\* Every request the bound allows has arrived and has been answered.
C5_Witness ==
    /\ Len(requests) = MaxRequests
    /\ \A id \in Ids : Sent(id) /\ Handled(id)
    /\ tasks = <<>>

C6_RenderedOnce ==
    /\ Cardinality(Where("render")) <= 1
    /\ \A i \in Where("render") : trace[i].fn = "module" /\ trace[i].id = 0
    /\ \A i \in Where("render") :
          /\ \A j \in Where("listen") \cup Where("bound") \cup Where("arrive") :
                i < j
          /\ \A j \in Where("enter") : trace[j].fn # "module" => i < j
    /\ pc \in {"app", "listen", "binding", "listening"} =>
          (html # Undefined /\ Cardinality(Where("render")) = 1)
    /\ (listenPort # 0 \/ requests # <<>>) => html # Undefined
    /\ \A id \in Ids : Sent(id) => EmbedsInContainer(res[id].body, html)

\* C6: html is computed exactly once, by the module script, before the
\* server listens and before any request; it is defined whenever a request
\* exists, the render is never invoked for a request, every response embeds
\* html, and once computed html never changes.
C6_HtmlWriteOnce ==
    /\ []C6_RenderedOnce
    /\ [][html # Undefined => html' = html]_vars

\* Two responses were sent and one request is still waiting.
C6_Witness ==
    /\ Cardinality({id \in Ids : Sent(id)}) = 2
    /\ \E id \in Ids : Pending(id)
    /\ html # Undefined

\* The requests given to the app, in the order of their dispatch.
Dispatched ==
    LET ins == SelectSeq(trace, LAMBDA e : e.ev = "enter" /\ e.fn = "app")
    IN  [k \in 1..Len(ins) |-> ins[k].id]

\* C9: a request is handled without interruption: between its log line and
\* its response no event of another request occurs, and log lines and
\* responses occur in the order in which the requests were dispatched.
C9_RunToCompletion ==
    /\ \A id \in Ids :
          \A i \in WhereId("log", id) :
              \A j \in WhereId("send", id) :
                  \A k \in i..j : trace[k].id = id
    /\ IdsOf("log") = Dispatched
    /\ IdsOf("send") = Dispatched

\* Two requests were both waiting in the queue before either was dispatched,
\* and both have been answered.
C9_Witness ==
    \E a, b \in Ids :
        /\ a # b /\ Sent(a) /\ Sent(b)
        /\ \E i \in WhereId("arrive", a), j \in WhereId("arrive", b) :
              \A d \in WhereOf("enter", "app", a) \cup WhereOf("enter", "app", b) :
                  i < d /\ j < d

C10_NoRecovery ==
    /\ (Where("throw") # {} \/ Where("bind-error") # {}) => pc = "crashed"
    /\ pc = "crashed" =>
          /\ listenPort = 0
          /\ console = <<>>
          /\ requests = <<>> /\ res = <<>>
          /\ Where("arrive") = {} /\ Where("send") = {}
          /\ Cardinality(Where("render")) <= 1
          /\ Cardinality(Where("listen")) <= 1
    /\ (\E k \in DOMAIN console : console[k] = StartupLine) =>
          /\ pc = "listening"
          /\ listenPort = Port
          /\ html # Undefined
          /\ \E r \in Where("render"), b \in Where("bound") :
                \A l \in WhereOf("log", "listening", 0) : r < b /\ b < l

\* C10: a failure at startup is not recovered: after the render throws or
\* the bind fails the process is never listening, the startup line is not
\* written, no request is logged or answered, nothing is retried and nothing
\* happens any more; and the startup line is written only once the listener
\* is bound and html has been computed.
C10_StartupFailure ==
    /\ []C10_NoRecovery
    /\ [][pc = "crashed" => UNCHANGED vars]_vars

\* The bind failed after html was rendered and the app built.
C10_Witness ==
    /\ pc = "crashed"
    /\ Where("bind-error") # {}
    /\ html # Undefined
    /\ app = <<"logger", "sendHTMLPage">>

====
